---- MODULE Spec2Model ----
(***************************************************************************)
(* Model of static/js/main.js: the client-side controller that submits one *)
(* image-generation request, toggles the loading / result / error regions  *)
(* and renders the response.  Every callback of the promise chain is one   *)
(* atomic action (JavaScript runs each task to completion).                *)
(***************************************************************************)
EXTENDS Integers, Sequences, FiniteSets, TLC

VARIABLES ui, reqs, order, click, missing, call, args, url

vars == <<ui, reqs, order, click, missing, call, args, url>>

(***************************************************************************)
(* Bounds                                                                  *)
(***************************************************************************)
\* number of handleGeneration calls explored in one run
MaxRequests == 2
\* longest form value (in characters) given to the URL builder
MaxLen == 2

(***************************************************************************)
(* JavaScript values that reach the DOM as text                            *)
(***************************************************************************)
JsUndefined == [t |-> "undefined", s |-> ""]
JsNull == [t |-> "null", s |-> ""]
JsString(s) == [t |-> "string", s |-> s]

\* the default value of setStopLoading's errorMsg parameter; the source's
\* literal ends with the emoji U+1F622, written here as its code point
DefaultErrorMsg == JsString("Unknown error U+1F622")
\* variant: the catch handlers pass the text of the default message
CatchErrorMsgAsDefault == DefaultErrorMsg

\* the literal both catch handlers pass to onGenerateError
CatchErrorMsg == JsString("Unknown error")

\* variant: no default value is declared for the parameter
DefaultParamAbsent(v, dflt) == v

\* a default parameter value replaces an argument that is undefined (only)
DefaultParam(v, dflt) == IF v.t = "undefined" THEN dflt ELSE v

\* conversion of the value assigned to innerText: the attribute is a
\* DOMString with LegacyNullToEmptyString
ToInnerText(v) ==
  CASE v.t = "string" -> v.s
    [] v.t = "null" -> ""
    [] OTHER -> "undefined"

(***************************************************************************)
(* UI State Controller: setStartLoading / setStopLoading                   *)
(***************************************************************************)
Displays == {"", "none", "block"}
Shown(d) == d # "none"

\* variant: the submit control is not disabled
SetStartLoadingKeepsEnabled(u) ==
  [u EXCEPT !.loading = "block",
            !.result = "none",
            !.error = "none"]

\* variant: the error region is not hidden
SetStartLoadingKeepsError(u) ==
  [u EXCEPT !.submitDisabled = TRUE,
            !.loading = "block",
            !.result = "none"]

SetStartLoading(u) ==
  [u EXCEPT !.submitDisabled = TRUE,
            !.loading = "block",
            !.result = "none",
            !.error = "none"]

\* variant: the result region is shown on success but not hidden on error
SetStopLoadingKeepsResult(u, isError, errorMsgArg) ==
  LET errorMsg == DefaultParam(errorMsgArg, DefaultErrorMsg)
  IN [u EXCEPT !.submitDisabled = FALSE,
               !.loading = "none",
               !.error = IF isError THEN "block" ELSE "none",
               !.errorDetails = ToInnerText(errorMsg),
               !.result = IF isError THEN @ ELSE "block"]

\* variant: a call made while the submit control is already enabled is
\* ignored, so the first response to arrive keeps the page
SetStopLoadingOnce(u, isError, errorMsgArg) ==
  LET errorMsg == DefaultParam(errorMsgArg, DefaultErrorMsg)
  IN IF ~u.submitDisabled THEN u
     ELSE [u EXCEPT !.submitDisabled = FALSE,
                    !.loading = "none",
                    !.error = IF isError THEN "block" ELSE "none",
                    !.errorDetails = ToInnerText(errorMsg),
                    !.result = IF isError THEN "none" ELSE "block"]

\* variant: the loading region is not hidden
SetStopLoadingKeepsLoading(u, isError, errorMsgArg) ==
  LET errorMsg == DefaultParam(errorMsgArg, DefaultErrorMsg)
  IN [u EXCEPT !.submitDisabled = FALSE,
               !.error = IF isError THEN "block" ELSE "none",
               !.errorDetails = ToInnerText(errorMsg),
               !.result = IF isError THEN "none" ELSE "block"]

\* variant: the submit control is not re-enabled
SetStopLoadingKeepsDisabled(u, isError, errorMsgArg) ==
  LET errorMsg == DefaultParam(errorMsgArg, DefaultErrorMsg)
  IN [u EXCEPT !.loading = "none",
               !.error = IF isError THEN "block" ELSE "none",
               !.errorDetails = ToInnerText(errorMsg),
               !.result = IF isError THEN "none" ELSE "block"]

SetStopLoading(u, isError, errorMsgArg) ==
  LET errorMsg == DefaultParam(errorMsgArg, DefaultErrorMsg)
  IN [u EXCEPT !.submitDisabled = FALSE,
               !.loading = "none",
               !.error = IF isError THEN "block" ELSE "none",
               !.errorDetails = ToInnerText(errorMsg),
               !.result = IF isError THEN "none" ELSE "block"]

\* variant: the message is not passed on
OnGenerateErrorDropsMessage(u, error) == SetStopLoading(u, TRUE, JsUndefined)

OnGenerateError(u, error) == SetStopLoading(u, TRUE, error)

(***************************************************************************)
(* Request builder: lines 49-66 of handleGeneration.  Strings that end up  *)
(* in the URL are sequences of one-character strings.                      *)
(***************************************************************************)
Alphabet == {"a", " ", "&"}

RECURSIVE StringsOfLen(_)
StringsOfLen(n) ==
  IF n = 0 THEN {<<>>}
  ELSE {Append(w, c) : w \in StringsOfLen(n - 1), c \in Alphabet}

FormStrings == UNION {StringsOfLen(n) : n \in 0..MaxLen}

\* a parameter of handleGeneration: t is the JavaScript type, v its string form
ArgUndefined == [t |-> "undefined", v |-> <<>>]
ArgValues ==
  {ArgUndefined}
    \cup {[t |-> "string", v |-> w] : w \in FormStrings}
    \cup {[t |-> "boolean", v |-> <<"t", "r", "u", "e">>],
          [t |-> "boolean", v |-> <<"f", "a", "l", "s", "e">>],
          [t |-> "number", v |-> <<"0">>],
          [t |-> "number", v |-> <<"1">>]}

\* variant: the condition tests for undefined instead of truthiness
TruthyNotUndefined(a) == a.t # "undefined"

\* the condition of `if (background)`: JavaScript truthiness
Truthy(a) ==
  CASE a.t = "undefined" -> FALSE
    [] a.t = "string" -> a.v # <<>>
    [] a.t = "boolean" -> a.v = <<"t", "r", "u", "e">>
    [] a.t = "number" -> a.v # <<"0">>
    [] OTHER -> FALSE

KeyBackground == <<"b", "a", "c", "k", "g", "r", "o", "u", "n", "d">>
KeyTextModel == <<"t", "e", "x", "t", "_", "m", "o", "d", "e", "l">>
KeyBlur == <<"b", "l", "u", "r">>

\* queryParams: the object's own keys in insertion order, with their values
QueryParams(background, text_model, blur) ==
  (IF Truthy(background) THEN <<[key |-> KeyBackground, value |-> background.v]>>
   ELSE <<>>)
  \o (IF Truthy(text_model) THEN <<[key |-> KeyTextModel, value |-> text_model.v]>>
      ELSE <<>>)
  \o (IF Truthy(blur) THEN <<[key |-> KeyBlur, value |-> blur.v]>>
      ELSE <<>>)

\* application/x-www-form-urlencoded byte serialisation of one character
Unreserved ==
  {"a", "b", "c", "d", "e", "f", "g", "h", "i", "j", "k", "l", "m", "n", "o",
   "p", "q", "r", "s", "t", "u", "v", "w", "x", "y", "z",
   "0", "1", "2", "3", "4", "5", "6", "7", "8", "9", "*", "-", ".", "_"}

UrlEncodeChar(c) ==
  CASE c \in Unreserved -> <<c>>
    [] c = " " -> <<"+">>
    [] c = "&" -> <<"%", "2", "6">>
    [] c = "=" -> <<"%", "3", "D">>
    [] c = "+" -> <<"%", "2", "B">>
    [] c = "%" -> <<"%", "2", "5">>
    [] OTHER -> <<"%", "3", "F">>

RECURSIVE UrlEncode(_)
UrlEncode(w) ==
  IF w = <<>> THEN <<>> ELSE UrlEncodeChar(Head(w)) \o UrlEncode(Tail(w))

\* `${searchParams}`: URLSearchParams.toString()
RECURSIVE SearchParamsToString(_)
SearchParamsToString(ps) ==
  IF ps = <<>> THEN <<>>
  ELSE UrlEncode(Head(ps).key) \o <<"=">> \o UrlEncode(Head(ps).value)
       \o (IF Tail(ps) = <<>> THEN <<>> ELSE <<"&">> \o SearchParamsToString(Tail(ps)))

GeneratePath == <<"/", "g", "e", "n", "e", "r", "a", "t", "e", "/">>

BuildRequestURL(background, text_model, blur) ==
  LET queryParams == QueryParams(background, text_model, blur)
  IN IF Len(queryParams) > 0
     THEN GeneratePath \o <<"?">> \o SearchParamsToString(queryParams)
     ELSE GeneratePath

(***************************************************************************)
(* Responses of the generation service                                     *)
(***************************************************************************)
\* a response header as headers.get returns it: absent (null), text that is
\* not JSON, or the text of a JSON object
HeaderMissing == [kind |-> "missing", url |-> "", first_name |-> "", last_name |-> "", text_model |-> ""]
HeaderMalformed == [kind |-> "malformed", url |-> "", first_name |-> "", last_name |-> "", text_model |-> ""]
CreditsObject(u, f, l) == [kind |-> "object", url |-> u, first_name |-> f, last_name |-> l, text_model |-> ""]
ParamsObject(m) == [kind |-> "object", url |-> "", first_name |-> "", last_name |-> "", text_model |-> m]

CreditsHeaders == {HeaderMissing, HeaderMalformed, CreditsObject("http://u", "A", "B")}
ParamsHeaders == {HeaderMissing, HeaderMalformed, ParamsObject("flux"), ParamsObject("gpt")}

\* response.ok: the status is in the range 200-299
ResponseOk(resp) == resp.status \in 200..299

\* no response received (yet)
NoResponse == [status |-> 0, credits |-> HeaderMissing, params |-> HeaderMissing]
\* a failure status (the headers of such a response are never read)
FailureResponse == [status |-> 500, credits |-> HeaderMissing, params |-> HeaderMissing]
OkResponses == {[status |-> 200, credits |-> c, params |-> p] : c \in CreditsHeaders, p \in ParamsHeaders}
Responses == OkResponses \cup {FailureResponse}

\* what response.json() settles with: a rejection (body unreadable or not
\* JSON), the value null, or an object whose error member is error
\* (JsUndefined when the object has no such member)
NoBody == [kind |-> "none", error |-> JsUndefined]
BodyNull == [kind |-> "null", error |-> JsUndefined]
BodyObject(e) == [kind |-> "object", error |-> e]
ServerMessages == {JsString("rate limited"), JsString("boom")}
JsonBodies == {BodyNull, BodyObject(JsUndefined), BodyObject(JsNull)}
                \cup {BodyObject(m) : m \in ServerMessages}

\* JSON.parse(response.headers.get(...)) throws on text that is not JSON;
\* an absent header is null, which parses to null
JsonParseThrows(h) == h.kind = "malformed"

\* the template literal reads members of both parsed values: a TypeError when
\* one of them is null
CaptionThrows(pictureCredits, generationInfo) ==
  pictureCredits.kind # "object" \/ generationInfo.kind # "object"

\* variant: the two names are interpolated in the other order
CaptionSwapsNames(pictureCredits, generationInfo) ==
  <<"Background picture by <a href='", pictureCredits.url, "'>",
    pictureCredits.last_name, " ", pictureCredits.first_name,
    " on Unsplash</a>.<br /> Generated with ", generationInfo.text_model,
    " on Hugging Face.">>

Caption(pictureCredits, generationInfo) ==
  <<"Background picture by <a href='", pictureCredits.url, "'>",
    pictureCredits.first_name, " ", pictureCredits.last_name,
    " on Unsplash</a>.<br /> Generated with ", generationInfo.text_model,
    " on Hugging Face.">>

\* URL.createObjectURL(myBlob): a fresh reference per blob, one blob per request
ObjectURL(r) == r

\* variant: the headers are read leniently and nothing throws
RenderThrowsNever(resp) == FALSE

\* whether the blob().then callback ends by throwing
RenderThrows(resp) ==
  \/ JsonParseThrows(resp.credits)
  \/ JsonParseThrows(resp.params)
  \/ CaptionThrows(resp.credits, resp.params)

\* variant: the rendering step shows the loading region again
RenderResultShowsLoading(u, r, resp) ==
  LET stopped == SetStopLoading(u, FALSE, JsUndefined)
      withImage == [stopped EXCEPT !.imageSrc = ObjectURL(r), !.loading = "block"]
  IN IF RenderThrows(resp) THEN withImage
     ELSE [withImage EXCEPT !.caption = Caption(resp.credits, resp.params)]

\* the blob().then callback, lines 73-89, up to the point where it throws
RenderResult(u, r, resp) ==
  LET stopped == SetStopLoading(u, FALSE, JsUndefined)
      withImage == [stopped EXCEPT !.imageSrc = ObjectURL(r)]
  IN IF RenderThrows(resp) THEN withImage
     ELSE [withImage EXCEPT !.caption = Caption(resp.credits, resp.params)]

(***************************************************************************)
(* State                                                                   *)
(***************************************************************************)
Requests == 1..MaxRequests

\* the page as served, before any script has run
InitialPage ==
  [submitDisabled |-> FALSE, loading |-> "none", result |-> "none",
   error |-> "none", errorDetails |-> "", imageSrc |-> 0, caption |-> <<>>]

\* url is the URL of the request while its fetch is pending; seenStops is the
\* number of setStopLoading calls made before the submission, and
\* disabledAtSubmit whether the submit control was disabled at that moment
NoRequest ==
  [pc |-> "none", url |-> <<>>, resp |-> NoResponse, body |-> NoBody,
   starts |-> 0, stops |-> 0, fetches |-> 0, unhandled |-> FALSE,
   seenStops |-> 0, disabledAtSubmit |-> FALSE]

\* the last call of onGenerateClick: what it did with the event and with an
\* exception of handleGeneration
NoClick ==
  [called |-> FALSE, prevented |-> FALSE, returned |-> "none", caught |-> FALSE,
   logged |-> FALSE, propagated |-> FALSE, pageAtThrow |-> InitialPage]

\* what the page lacks: an element looked up by setStartLoading, or the
\* fetch function; "none" when the page is as the script expects it
MissingChoices == {"none", "form-submit", "loading", "result", "error", "fetch"}

\* the last direct call of a controller or builder operation, with the page
\* it was applied to
NoCall == [op |-> "none", isError |-> FALSE, msg |-> JsUndefined, before |-> InitialPage]
NoArgs == <<ArgUndefined, ArgUndefined, ArgUndefined>>

\* the form values submitted in the request lifecycle
ArgBeach == [t |-> "string", v |-> <<"b", "e", "a", "c", "h">>]
ArgFlux == [t |-> "string", v |-> <<"f", "l", "u", "x">>]
ArgOne == [t |-> "string", v |-> <<"1">>]
FormInputs == {NoArgs, <<ArgBeach, ArgFlux, ArgOne>>}

Init ==
  /\ ui = InitialPage
  /\ reqs = [r \in Requests |-> NoRequest]
  /\ order = <<>>
  /\ click = NoClick
  /\ missing = "none"
  /\ call = NoCall
  /\ args = NoArgs
  /\ url = <<>>

(***************************************************************************)
(* Request lifecycle: handleGeneration and the callbacks of its chain      *)
(***************************************************************************)
\* variant: the inner chain is returned from the outer then callback, so its
\* rejection reaches the catch of line 102
BlobChainRejectedToCatch == "catch"

\* where the rejection of the inner chain response.blob().then(...) goes:
\* the promise is not returned from the outer then callback (line 72), so no
\* handler is attached to it
BlobChainRejected == "unhandled"

\* lines 42-69: setStartLoading, build the URL, start the fetch
HandleGeneration(r, background, text_model, blur) ==
  /\ ui' = SetStartLoading(ui)
  /\ reqs' = [reqs EXCEPT ![r] =
       [@ EXCEPT !.pc = "fetch",
                 !.url = BuildRequestURL(background, text_model, blur),
                 !.starts = @ + 1,
                 !.fetches = @ + 1,
                 !.seenStops = Len(order),
                 !.disabledAtSubmit = ui.submitDisabled]]

\* the page at the moment handleGeneration throws synchronously: a missing
\* element makes setStartLoading throw at the line that writes to it (lines
\* 3, 7, 11, 15); a missing fetch throws at line 69, after setStartLoading
HandleGenerationUntilThrow(u, m) ==
  CASE m = "form-submit" -> u
    [] m = "loading" -> [u EXCEPT !.submitDisabled = TRUE]
    [] m = "result" -> [u EXCEPT !.submitDisabled = TRUE, !.loading = "block"]
    [] m = "error" -> [u EXCEPT !.submitDisabled = TRUE, !.loading = "block",
                                !.result = "none"]
    [] OTHER -> SetStartLoading(u)

\* variant: the catch block of the guard also ends the loading state
CatchGenerationStopsLoading(u) == SetStopLoading(u, TRUE, JsUndefined)

\* lines 118-120: the catch block of the guard only logs
CatchGeneration(u) == u

\* lines 107-123; the r-th submission
OnGenerateClick(r) ==
  /\ reqs[r].pc = "none"
  /\ \A q \in Requests : q < r => reqs[q].pc # "none"
  /\ IF missing = "none"
     THEN /\ \E form \in FormInputs : HandleGeneration(r, form[1], form[2], form[3])
          /\ click' = [called |-> TRUE, prevented |-> TRUE, returned |-> "false",
                       caught |-> FALSE, logged |-> FALSE, propagated |-> FALSE,
                       pageAtThrow |-> InitialPage]
     ELSE LET thrownAt == HandleGenerationUntilThrow(ui, missing)
          IN /\ ui' = CatchGeneration(thrownAt)
             /\ reqs' = [reqs EXCEPT ![r] =
                  [@ EXCEPT !.pc = "threw",
                            !.starts = IF missing = "fetch" THEN @ + 1 ELSE @,
                            !.seenStops = Len(order),
                            !.disabledAtSubmit = ui.submitDisabled]]
             /\ click' = [called |-> TRUE, prevented |-> TRUE, returned |-> "false",
                          caught |-> TRUE, logged |-> TRUE, propagated |-> FALSE,
                          pageAtThrow |-> thrownAt]
  /\ UNCHANGED <<order, missing, call, args, url>>

\* the network: fetch fulfils with a response
FetchFulfil(r) ==
  /\ reqs[r].pc = "fetch"
  /\ \E resp \in Responses :
       reqs' = [reqs EXCEPT ![r] = [@ EXCEPT !.pc = "then", !.url = <<>>, !.resp = resp]]
  /\ UNCHANGED <<ui, order, click, missing, call, args, url>>

\* the network: fetch rejects (no response); the then of line 70 passes the
\* rejection on to the catch of line 102
FetchReject(r) ==
  /\ reqs[r].pc = "fetch"
  /\ reqs' = [reqs EXCEPT ![r] = [@ EXCEPT !.pc = "catch", !.url = <<>>]]
  /\ UNCHANGED <<ui, order, click, missing, call, args, url>>

\* lines 70-101: the then callback starts reading the body
ThenResponse(r) ==
  /\ reqs[r].pc = "then"
  /\ reqs' = [reqs EXCEPT ![r] =
       [@ EXCEPT !.pc = IF ResponseOk(reqs[r].resp) THEN "blob" ELSE "json"]]
  /\ UNCHANGED <<ui, order, click, missing, call, args, url>>

\* variant: the catch handler issues the request once more before giving up
CatchFetchRetries(r) ==
  /\ reqs[r].pc = "catch"
  /\ IF reqs[r].fetches < 2
     THEN /\ reqs' = [reqs EXCEPT ![r] = [@ EXCEPT !.pc = "fetch", !.fetches = @ + 1]]
          /\ UNCHANGED <<ui, order>>
     ELSE /\ ui' = OnGenerateError(ui, CatchErrorMsg)
          /\ reqs' = [reqs EXCEPT ![r] = [@ EXCEPT !.pc = "done", !.stops = @ + 1]]
          /\ order' = Append(order, r)
  /\ UNCHANGED <<click, missing, call, args, url>>

\* variant: the catch handler reports the end of loading without an error
CatchFetchAsSuccess(r) ==
  /\ reqs[r].pc = "catch"
  /\ ui' = SetStopLoading(ui, FALSE, CatchErrorMsg)
  /\ reqs' = [reqs EXCEPT ![r] = [@ EXCEPT !.pc = "done", !.stops = @ + 1]]
  /\ order' = Append(order, r)
  /\ UNCHANGED <<click, missing, call, args, url>>

\* lines 102-104
CatchFetch(r) ==
  /\ reqs[r].pc = "catch"
  /\ ui' = OnGenerateError(ui, CatchErrorMsg)
  /\ reqs' = [reqs EXCEPT ![r] = [@ EXCEPT !.pc = "done", !.stops = @ + 1]]
  /\ order' = Append(order, r)
  /\ UNCHANGED <<click, missing, call, args, url>>

\* response.blob() fulfils
BlobFulfil(r) ==
  /\ reqs[r].pc = "blob"
  /\ reqs' = [reqs EXCEPT ![r] = [@ EXCEPT !.pc = "blobThen"]]
  /\ UNCHANGED <<ui, order, click, missing, call, args, url>>

\* response.blob() rejects (the body could not be read)
BlobReject(r) ==
  /\ reqs[r].pc = "blob"
  /\ reqs' = [reqs EXCEPT ![r] =
       [@ EXCEPT !.pc = BlobChainRejected,
                 !.unhandled = (BlobChainRejected = "unhandled")]]
  /\ UNCHANGED <<ui, order, click, missing, call, args, url>>

\* lines 72-90
ThenBlob(r) ==
  /\ reqs[r].pc = "blobThen"
  /\ ui' = RenderResult(ui, r, reqs[r].resp)
  /\ reqs' = [reqs EXCEPT ![r] =
       [@ EXCEPT !.stops = @ + 1,
                 !.pc = IF RenderThrows(reqs[r].resp) THEN BlobChainRejected ELSE "done",
                 !.unhandled = RenderThrows(reqs[r].resp) /\ BlobChainRejected = "unhandled"]]
  /\ order' = Append(order, r)
  /\ UNCHANGED <<click, missing, call, args, url>>

\* response.json() fulfils with the parsed body
JsonFulfil(r) ==
  /\ reqs[r].pc = "json"
  /\ \E body \in JsonBodies :
       reqs' = [reqs EXCEPT ![r] = [@ EXCEPT !.pc = "jsonThen", !.body = body]]
  /\ UNCHANGED <<ui, order, click, missing, call, args, url>>

\* response.json() rejects (the body is not JSON)
JsonReject(r) ==
  /\ reqs[r].pc = "json"
  /\ reqs' = [reqs EXCEPT ![r] = [@ EXCEPT !.pc = "jsonCatch"]]
  /\ UNCHANGED <<ui, order, click, missing, call, args, url>>

\* lines 94-96: json.error of null throws before onGenerateError is called
ThenJson(r) ==
  /\ reqs[r].pc = "jsonThen"
  /\ IF reqs[r].body.kind = "null"
     THEN /\ reqs' = [reqs EXCEPT ![r] = [@ EXCEPT !.pc = "jsonCatch"]]
          /\ UNCHANGED <<ui, order>>
     ELSE /\ ui' = OnGenerateError(ui, reqs[r].body.error)
          /\ reqs' = [reqs EXCEPT ![r] = [@ EXCEPT !.pc = "done", !.stops = @ + 1]]
          /\ order' = Append(order, r)
  /\ UNCHANGED <<click, missing, call, args, url>>

\* variant: the catch handler reports the end of loading without an error
CatchJsonAsSuccess(r) ==
  /\ reqs[r].pc = "jsonCatch"
  /\ ui' = SetStopLoading(ui, FALSE, CatchErrorMsg)
  /\ reqs' = [reqs EXCEPT ![r] = [@ EXCEPT !.pc = "done", !.stops = @ + 1]]
  /\ order' = Append(order, r)
  /\ UNCHANGED <<click, missing, call, args, url>>

\* lines 97-99
CatchJson(r) ==
  /\ reqs[r].pc = "jsonCatch"
  /\ ui' = OnGenerateError(ui, CatchErrorMsg)
  /\ reqs' = [reqs EXCEPT ![r] = [@ EXCEPT !.pc = "done", !.stops = @ + 1]]
  /\ order' = Append(order, r)
  /\ UNCHANGED <<click, missing, call, args, url>>

Next ==
  \E r \in Requests :
    \/ OnGenerateClick(r)
    \/ FetchFulfil(r)
    \/ FetchReject(r)
    \/ ThenResponse(r)
    \/ CatchFetch(r)
    \/ BlobFulfil(r)
    \/ BlobReject(r)
    \/ ThenBlob(r)
    \/ JsonFulfil(r)
    \/ JsonReject(r)
    \/ ThenJson(r)
    \/ CatchJson(r)

Spec == Init /\ [][Next]_vars

\* every callback that is queued runs, and every network read settles
Fairness ==
  \A r \in Requests :
    /\ WF_vars(FetchFulfil(r) \/ FetchReject(r))
    /\ WF_vars(ThenResponse(r))
    /\ WF_vars(CatchFetch(r))
    /\ WF_vars(BlobFulfil(r) \/ BlobReject(r))
    /\ WF_vars(ThenBlob(r))
    /\ WF_vars(JsonFulfil(r) \/ JsonReject(r))
    /\ WF_vars(ThenJson(r))
    /\ WF_vars(CatchJson(r))

FairSpec == Spec /\ Fairness

(***************************************************************************)
(* The controller operations applied to an arbitrary page                  *)
(***************************************************************************)
DetailsTexts == {"", "boom", "stale"}
MessageArgs == {JsUndefined, JsNull, JsString("boom"), JsString("rate limited")}

AnyPage ==
  [submitDisabled : BOOLEAN, loading : Displays, result : Displays,
   error : Displays, errorDetails : DetailsTexts, imageSrc : {0}, caption : {<<>>}]

InitController ==
  /\ ui \in AnyPage
  /\ reqs = [r \in Requests |-> NoRequest]
  /\ order = <<>>
  /\ click = NoClick
  /\ missing = "none"
  /\ call = NoCall
  /\ args = NoArgs
  /\ url = <<>>

CallSetStartLoading ==
  /\ ui' = SetStartLoading(ui)
  /\ call' = [op |-> "setStartLoading", isError |-> FALSE, msg |-> JsUndefined, before |-> ui]
  /\ UNCHANGED <<reqs, order, click, missing, args, url>>

CallSetStopLoading ==
  /\ \E isError \in BOOLEAN, msg \in MessageArgs :
       /\ ui' = SetStopLoading(ui, isError, msg)
       /\ call' = [op |-> "setStopLoading", isError |-> isError, msg |-> msg, before |-> ui]
  /\ UNCHANGED <<reqs, order, click, missing, args, url>>

NextController == CallSetStartLoading \/ CallSetStopLoading

SpecController == InitController /\ [][NextController]_vars

(***************************************************************************)
(* The submission handler on a page that may lack what the script expects  *)
(***************************************************************************)
InitGuard ==
  /\ ui \in AnyPage
  /\ reqs = [r \in Requests |-> NoRequest]
  /\ order = <<>>
  /\ click = NoClick
  /\ missing \in MissingChoices
  /\ call = NoCall
  /\ args = NoArgs
  /\ url = <<>>

NextGuard == \E r \in Requests : OnGenerateClick(r)

SpecGuard == InitGuard /\ [][NextGuard]_vars

(***************************************************************************)
(* The request builder applied to every combination of parameters          *)
(***************************************************************************)
InitBuilder ==
  /\ ui = InitialPage
  /\ reqs = [r \in Requests |-> NoRequest]
  /\ order = <<>>
  /\ click = NoClick
  /\ missing = "none"
  /\ call = NoCall
  /\ args \in ArgValues \X ArgValues \X ArgValues
  /\ url = <<>>

CallBuildRequestURL ==
  /\ call.op = "none"
  /\ url' = BuildRequestURL(args[1], args[2], args[3])
  /\ call' = [call EXCEPT !.op = "buildRequestURL"]
  /\ UNCHANGED <<ui, reqs, order, click, missing, args>>

NextBuilder == CallBuildRequestURL

SpecBuilder == InitBuilder /\ [][NextBuilder]_vars

(***************************************************************************)
(* Properties                                                              *)
(***************************************************************************)
Regions == {"loading", "result", "error"}
VisibleRegions(u) == {x \in Regions : Shown(u[x])}
Started(r) == reqs[r].starts > 0

\* C1: every call of handleGeneration that ran setStartLoading is eventually
\* followed by a call of setStopLoading, whatever the outcome of the request
\* (checked under FairSpec: queued callbacks run and network reads settle).
C1_EveryStartEventuallyStops ==
  \A r \in Requests : Started(r) ~> (reqs[r].stops > 0)

\* C2: for each call of handleGeneration, setStopLoading is called at most
\* once over the whole life of the request.
C2_AtMostOneStop ==
  \A r \in Requests : reqs[r].stops <= 1

\* C2 witness: a success callback that stopped loading and then threw while
\* parsing the headers; the chain has ended with exactly one stop.
C2_Witness ==
  \E r \in Requests :
    /\ reqs[r].unhandled
    /\ ResponseOk(reqs[r].resp)
    /\ RenderThrows(reqs[r].resp)
    /\ reqs[r].stops = 1

\* C3: never more than one of the loading, result and error regions is
\* visible, and once a submission has happened exactly one of them is.
C3_OneRegionVisible ==
  /\ Cardinality(VisibleRegions(ui)) <= 1
  /\ (\E r \in Requests : Started(r)) => Cardinality(VisibleRegions(ui)) = 1

\* C3 witness: two overlapping requests have both ended, the first with a
\* result and the second with an error, and only the error region is visible.
C3_Witness ==
  /\ MaxRequests >= 2
  /\ reqs[1].pc = "done" /\ ResponseOk(reqs[1].resp) /\ reqs[1].stops = 1
  /\ reqs[2].pc = "done" /\ ~ResponseOk(reqs[2].resp) /\ reqs[2].stops = 1
  /\ VisibleRegions(ui) = {"error"}

\* C4: from any page, setStartLoading leaves submit disabled, loading shown,
\* result hidden and error hidden, and applying it again changes nothing.
C4_StartLoadingPostcondition ==
  call.op = "setStartLoading" =>
    /\ ui.submitDisabled = TRUE
    /\ ui.loading = "block"
    /\ ui.result = "none"
    /\ ui.error = "none"
    /\ SetStartLoading(ui) = ui

\* C4 witness: setStartLoading was applied to a page that had submit enabled,
\* loading hidden and both the result and the error region shown.
C4_Witness ==
  /\ call.op = "setStartLoading"
  /\ ~call.before.submitDisabled
  /\ ~Shown(call.before.loading)
  /\ Shown(call.before.result)
  /\ Shown(call.before.error)

\* C5: from any page, setStopLoading(false) leaves loading hidden, result
\* shown, error hidden and submit enabled.
C5_StopLoadingSuccessPostcondition ==
  (call.op = "setStopLoading" /\ ~call.isError) =>
    /\ ui.loading = "none"
    /\ ui.result = "block"
    /\ ui.error = "none"
    /\ ui.submitDisabled = FALSE

\* C5 witness: setStopLoading(false) was applied to a page that had submit
\* disabled, loading shown, result hidden and error shown.
C5_Witness ==
  /\ call.op = "setStopLoading" /\ ~call.isError /\ call.msg = JsUndefined
  /\ call.before.submitDisabled
  /\ Shown(call.before.loading)
  /\ ~Shown(call.before.result)
  /\ Shown(call.before.error)

\* C6: from any page, setStopLoading(true, m) with a message string m leaves
\* loading hidden, error shown with details text exactly m, result hidden and
\* submit enabled; with no message the details text is the fixed fallback.
C6_StopLoadingErrorPostcondition ==
  (call.op = "setStopLoading" /\ call.isError /\ call.msg.t \in {"string", "undefined"}) =>
    /\ ui.loading = "none"
    /\ ui.error = "block"
    /\ ui.result = "none"
    /\ ui.submitDisabled = FALSE
    /\ call.msg.t = "string" => ui.errorDetails = call.msg.s
    /\ call.msg.t = "undefined" => ui.errorDetails = "Unknown error U+1F622"

\* C6 witness: setStopLoading(true, "boom") was applied to a page that showed
\* the result and the loading region and carried another details text.
C6_Witness ==
  /\ call.op = "setStopLoading" /\ call.isError /\ call.msg = JsString("boom")
  /\ Shown(call.before.result)
  /\ Shown(call.before.loading)
  /\ call.before.errorDetails = "stale"
  /\ ui.errorDetails = "boom"

\* the step in which request r goes from position p to the end of its chain
Ends(r, p) == reqs[r].pc = p /\ reqs'[r].pc = "done"

ErrorPage(u) ==
  /\ u.error = "block"
  /\ u.result = "none"
  /\ u.loading = "none"
  /\ u.submitDisabled = FALSE

\* C7: a failure-status response whose body is a JSON object with an error
\* member of string value m ends the request with the error region shown,
\* details text exactly m, result and loading hidden, submit enabled.
C7_ServerMessageVerbatim ==
  [][\A r \in Requests :
       (Ends(r, "jsonThen") /\ reqs[r].body.kind = "object"
          /\ reqs[r].body.error.t = "string")
       => (ErrorPage(ui') /\ ui'.errorDetails = reqs[r].body.error.s)]_vars

\* C7 witness: a request has ended on the body {"error": "rate limited"} and
\* the page shows that text in the error region.
C7_Witness ==
  \E r \in Requests :
    /\ reqs[r].pc = "done" /\ ~ResponseOk(reqs[r].resp) /\ reqs[r].stops = 1
    /\ reqs[r].body = BodyObject(JsString("rate limited"))
    /\ ErrorPage(ui)
    /\ ui.errorDetails = "rate limited"

\* sub-case (a) of C8: the error body could not be parsed as JSON
BodyUnparseable(r) == reqs[r].pc = "jsonCatch" /\ reqs[r].body.kind = "none"
\* sub-case (b) of C8: the error body is a JSON object without an error member
BodyWithoutError(r) ==
  reqs[r].pc = "jsonThen" /\ reqs[r].body = BodyObject(JsUndefined)

\* C8 as stated: on a failure status, both when the body cannot be parsed
\* and when it parses but has no error member, the request ends with the
\* error region shown and details text exactly "Unknown error".
C8_Original ==
  [][\A r \in Requests :
       ((BodyUnparseable(r) \/ BodyWithoutError(r)) /\ reqs'[r].pc = "done")
       => (ErrorPage(ui') /\ ui'.errorDetails = "Unknown error")]_vars

\* C8 amended: on a failure status the request ends with the error region
\* shown; the details text is "Unknown error" when the body cannot be
\* parsed, and the fallback text of setStopLoading when the body parses but
\* has no error member.
C8_GenericMessages ==
  [][\A r \in Requests :
       /\ (BodyUnparseable(r) /\ reqs'[r].pc = "done")
            => (ErrorPage(ui') /\ ui'.errorDetails = "Unknown error")
       /\ (BodyWithoutError(r) /\ reqs'[r].pc = "done")
            => (ErrorPage(ui') /\ ui'.errorDetails = "Unknown error U+1F622")]_vars

\* C8 witness: a request has ended on an error body without an error member
\* and the page shows the fallback text.
C8_Witness ==
  \E r \in Requests :
    /\ reqs[r].pc = "done" /\ ~ResponseOk(reqs[r].resp) /\ reqs[r].stops = 1
    /\ reqs[r].body = BodyObject(JsUndefined)
    /\ ErrorPage(ui)
    /\ ui.errorDetails = "Unknown error U+1F622"

\* C9 as stated: a transport failure ends the request with the error region
\* shown with the fallback text of setStopLoading, result and loading hidden,
\* submit enabled.
C9_Original ==
  [][\A r \in Requests :
       Ends(r, "catch")
       => (ErrorPage(ui') /\ ui'.errorDetails = "Unknown error U+1F622")]_vars

\* C9 amended: a transport failure ends the request with the error region
\* shown with the text "Unknown error" (not the fallback text of
\* setStopLoading), result and loading hidden, submit enabled.
C9_TransportFailureMessage ==
  [][\A r \in Requests :
       Ends(r, "catch")
       => (ErrorPage(ui') /\ ui'.errorDetails = "Unknown error"
             /\ ui'.errorDetails # ToInnerText(DefaultErrorMsg))]_vars

\* C9 witness: a request whose fetch was rejected has ended and the page
\* shows "Unknown error" in the error region.
C9_Witness ==
  \E r \in Requests :
    /\ reqs[r].pc = "done" /\ reqs[r].stops = 1
    /\ reqs[r].resp = NoResponse
    /\ \A q \in Requests \ {r} : reqs[q].pc = "none"
    /\ ErrorPage(ui)
    /\ ui.errorDetails = "Unknown error"

(***************************************************************************)
(* Reading a query string back, as the receiving service does              *)
(***************************************************************************)
\* the pieces of w between occurrences of sep
RECURSIVE SplitOn(_, _, _)
SplitOn(w, sep, piece) ==
  IF w = <<>> THEN <<piece>>
  ELSE IF Head(w) = sep THEN <<piece>> \o SplitOn(Tail(w), sep, <<>>)
       ELSE SplitOn(Tail(w), sep, Append(piece, Head(w)))

PercentDecoded(h1, h2) ==
  CASE <<h1, h2>> = <<"2", "6">> -> "&"
    [] <<h1, h2>> = <<"3", "D">> -> "="
    [] <<h1, h2>> = <<"2", "B">> -> "+"
    [] <<h1, h2>> = <<"2", "5">> -> "%"
    [] OTHER -> "?"

RECURSIVE UrlDecode(_)
UrlDecode(w) ==
  IF w = <<>> THEN <<>>
  ELSE IF Head(w) = "+" THEN <<" ">> \o UrlDecode(Tail(w))
  ELSE IF Head(w) = "%" /\ Len(w) >= 3
       THEN <<PercentDecoded(w[2], w[3])>> \o UrlDecode(SubSeq(w, 4, Len(w)))
  ELSE <<Head(w)>> \o UrlDecode(Tail(w))

\* one name=value piece: the name is what precedes the first "="
ParsePair(piece) ==
  LET eq == {i \in 1..Len(piece) : piece[i] = "="}
      first == IF eq = {} THEN Len(piece) + 1
               ELSE CHOOSE i \in eq : \A j \in eq : i <= j
  IN [key |-> UrlDecode(SubSeq(piece, 1, first - 1)),
      value |-> UrlDecode(SubSeq(piece, first + 1, Len(piece)))]

ParseQuery(q) ==
  LET pieces == SplitOn(q, "&", <<>>)
  IN [i \in 1..Len(pieces) |-> ParsePair(pieces[i])]

\* the inputs that count as absent or falsy
AbsentOrFalsy ==
  {ArgUndefined,
   [t |-> "string", v |-> <<>>],
   [t |-> "boolean", v |-> <<"f", "a", "l", "s", "e">>],
   [t |-> "number", v |-> <<"0">>]}

\* the keys a request for the given inputs must carry, in order
ExpectedPairs(a) ==
  LET all == <<[key |-> KeyBackground, value |-> a[1]],
               [key |-> KeyTextModel, value |-> a[2]],
               [key |-> KeyBlur, value |-> a[3]]>>
      present == SelectSeq(all, LAMBDA kv : kv.value \notin AbsentOrFalsy)
  IN [i \in 1..Len(present) |-> [key |-> present[i].key, value |-> present[i].value.v]]

\* C10: the URL requested is "/generate/" followed by a query string that
\* carries exactly the keys whose input is present and truthy, in the order
\* background, text_model, blur, each with its input value; with no such
\* input the URL is exactly "/generate/".
C10_RequestURL ==
  call.op = "buildRequestURL" =>
    LET expected == ExpectedPairs(args)
        n == Len(GeneratePath)
    IN IF expected = <<>>
       THEN url = GeneratePath
       ELSE /\ Len(url) > n + 1
            /\ SubSeq(url, 1, n + 1) = GeneratePath \o <<"?">>
            /\ ParseQuery(SubSeq(url, n + 2, Len(url))) = expected

\* C10 witness: the URL was built for an absent background, a text_model
\* that needs encoding and an empty blur, and carries a query string.
C10_Witness ==
  /\ call.op = "buildRequestURL"
  /\ args[1] = ArgUndefined
  /\ args[2] = [t |-> "string", v |-> <<"a", "&">>]
  /\ args[3] = [t |-> "string", v |-> <<>>]
  /\ url = GeneratePath \o <<"?">> \o KeyTextModel \o <<"=", "a", "%", "2", "6">>

ResultPage(u) ==
  /\ u.result = "block"
  /\ u.error = "none"
  /\ u.loading = "none"
  /\ u.submitDisabled = FALSE

\* the step in which the blob().then callback of request r runs
RenderStep(r) == reqs[r].pc = "blobThen" /\ reqs'[r].pc # "blobThen"
StartStep(r) == reqs'[r].starts > reqs[r].starts
StopStep(r) == reqs'[r].stops > reqs[r].stops

\* C11: a success response with a readable body and valid JSON headers ends
\* the request with the result region shown (loading and error hidden,
\* submit enabled), the image slot referring to this response's blob and the
\* caption built from this response's credits and text_model.
C11_SuccessRendersResponse ==
  [][\A r \in Requests :
       (RenderStep(r) /\ reqs[r].resp.credits.kind = "object"
          /\ reqs[r].resp.params.kind = "object")
       => /\ ResultPage(ui')
          /\ ui'.imageSrc = r
          /\ Len(ui'.caption) = 9
          /\ ui'.caption[2] = reqs[r].resp.credits.url
          /\ ui'.caption[4] = reqs[r].resp.credits.first_name
          /\ ui'.caption[5] = " "
          /\ ui'.caption[6] = reqs[r].resp.credits.last_name
          /\ ui'.caption[8] = reqs[r].resp.params.text_model]_vars

\* C11 witness: a request has ended on a success response with credits A B
\* and text_model flux, and the page shows its image and that caption.
C11_Witness ==
  \E r \in Requests :
    /\ reqs[r].pc = "done" /\ ResponseOk(reqs[r].resp)
    /\ ResultPage(ui)
    /\ ui.imageSrc = r
    /\ ui.caption[4] = "A" /\ ui.caption[6] = "B" /\ ui.caption[8] = "flux"

\* a header that is missing or not valid JSON
HeaderUnusable(h) == h.kind \in {"missing", "malformed"}

\* C15: on a success response with a missing or invalid credits or
\* parameters header, the callback has stopped loading before it fails: the
\* request ends with an uncaught failure, loading hidden, submit enabled,
\* result shown, error hidden, the image slot set to the new blob reference
\* and the caption left at its previous value.
C15_MalformedHeadersAfterStop ==
  [][\A r \in Requests :
       (RenderStep(r) /\ (HeaderUnusable(reqs[r].resp.credits)
                            \/ HeaderUnusable(reqs[r].resp.params)))
       => /\ ResultPage(ui')
          /\ ui'.imageSrc = r
          /\ ui'.caption = ui.caption
          /\ reqs'[r].unhandled
          /\ reqs'[r].stops = reqs[r].stops + 1]_vars

\* C15 witness: a request with an invalid header has ended after another
\* request had rendered: the page shows the new image with the old caption.
C15_Witness ==
  \E r, q \in Requests :
    /\ r # q
    /\ reqs[r].unhandled /\ reqs[r].stops = 1
    /\ HeaderUnusable(reqs[r].resp.credits)
    /\ reqs[q].pc = "done" /\ ResponseOk(reqs[q].resp)
    /\ ResultPage(ui)
    /\ ui.imageSrc = r
    /\ ui.caption = Caption(reqs[q].resp.credits, reqs[q].resp.params)

\* C16: each call of handleGeneration issues exactly one GET request, after
\* setStartLoading has run; no outcome makes it issue the request again.
C16_OneFetchPerCall ==
  \A r \in Requests :
    /\ reqs[r].fetches = (IF reqs[r].pc = "none" THEN 0 ELSE 1)
    /\ reqs[r].fetches <= reqs[r].starts

\* C16 witness: a request whose fetch was rejected has ended with one
\* request issued.
C16_Witness ==
  \E r \in Requests :
    /\ reqs[r].pc = "done" /\ reqs[r].resp = NoResponse
    /\ reqs[r].stops = 1
    /\ reqs[r].fetches = 1

Flags(u) == <<u.submitDisabled, u.loading, u.result, u.error>>
Slots(u) == <<u.imageSrc, u.caption>>

\* C17: the region displays and the submit enablement change only in steps
\* that run setStartLoading or setStopLoading; the image and caption slots
\* change only in the rendering step, which beyond its setStopLoading call
\* changes nothing else; a submission changes nothing beyond what its
\* setStartLoading call does.
C17_FrameCondition ==
  [][/\ Flags(ui') # Flags(ui) => \E r \in Requests : StartStep(r) \/ StopStep(r)
     /\ Slots(ui') # Slots(ui) => \E r \in Requests : RenderStep(r)
     /\ \A r \in Requests :
          RenderStep(r) =>
            [ui' EXCEPT !.imageSrc = ui.imageSrc, !.caption = ui.caption]
              = SetStopLoading(ui, FALSE, JsUndefined)
     /\ \A r \in Requests : StartStep(r) => ui' = SetStartLoading(ui)]_vars

\* C17 witness: after a request has rendered its image and caption, a new
\* submission has put the page in loading and left both slots as they were.
C17_Witness ==
  \E r, q \in Requests :
    /\ reqs[r].pc = "done" /\ ResponseOk(reqs[r].resp)
    /\ reqs[q].pc = "fetch"
    /\ Shown(ui.loading) /\ ui.submitDisabled
    /\ ui.imageSrc = r
    /\ ui.caption = Caption(reqs[r].resp.credits, reqs[r].resp.params)

\* C19: in every reachable state the submit control is disabled if and only
\* if the loading region is visible.
C19_DisabledIffLoading ==
  ui.submitDisabled <=> Shown(ui.loading)

\* C19 witness: one of two overlapping requests has ended, so the control is
\* enabled and the loading region hidden while the other is still pending.
C19_Witness ==
  \E r, q \in Requests :
    /\ reqs[r].pc = "done"
    /\ reqs[q].pc \in {"fetch", "then", "blob", "blobThen", "json", "jsonThen"}
    /\ ~ui.submitDisabled
    /\ ~Shown(ui.loading)

(***************************************************************************)
(* Overlapping requests                                                    *)
(***************************************************************************)
InFlight(r) ==
  reqs[r].pc \in {"fetch", "then", "catch", "blob", "blobThen", "json",
                  "jsonThen", "jsonCatch"}
Submitted(r) == reqs[r].pc # "none"
AllSettled == \A r \in Requests : ~InFlight(r)
\* at least two requests were submitted, all of them before any of them
\* had called setStopLoading: they were in flight concurrently
Concurrent ==
  /\ Cardinality({r \in Requests : Submitted(r)}) >= 2
  /\ \A r \in Requests : Submitted(r) => reqs[r].seenStops = 0
\* some submission was made while the submit control was disabled
Bypassed == \E r \in Requests : Submitted(r) /\ reqs[r].disabledAtSubmit

Succeeded(r) == ResponseOk(reqs[r].resp)
Rendered(r) ==
  /\ Succeeded(r)
  /\ reqs[r].resp.credits.kind = "object"
  /\ reqs[r].resp.params.kind = "object"

\* the details text the ending callback of request r writes
DetailsOf(r) ==
  IF Succeeded(r) THEN "Unknown error U+1F622"
  ELSE IF reqs[r].body.kind # "object" THEN "Unknown error"
  ELSE IF reqs[r].body.error.t = "undefined" THEN "Unknown error U+1F622"
  ELSE IF reqs[r].body.error.t = "null" THEN ""
  ELSE reqs[r].body.error.s

LastOf(w) == w[Len(w)]

\* region displays, submit enablement and details text as the ending
\* callback of request r sets them
PageSetBy(r) ==
  /\ IF Succeeded(r) THEN ResultPage(ui) ELSE ErrorPage(ui)
  /\ ui.errorDetails = DetailsOf(r)

\* C12 as stated: when requests were in flight concurrently, the final page
\* (regions, submit enablement, details text, image and caption) is the one
\* produced by the request whose response resolved last.
C12_Original ==
  (AllSettled /\ Concurrent /\ Len(order) >= 2) =>
    LET last == LastOf(order)
    IN /\ PageSetBy(last)
       /\ ui.imageSrc = (IF Succeeded(last) THEN last ELSE InitialPage.imageSrc)
       /\ ui.caption = (IF Rendered(last)
                        THEN Caption(reqs[last].resp.credits, reqs[last].resp.params)
                        ELSE InitialPage.caption)

\* C12 amended: when requests were in flight concurrently, the final region
\* displays, submit enablement and details text are those set by the request
\* whose callback called setStopLoading last, whatever the order of
\* submission; the image is that of the last request whose success callback
\* ran and the caption that of the last request whose headers parsed.
C12_LastStopWins ==
  (AllSettled /\ Concurrent /\ order # <<>>) =>
    LET last == LastOf(order)
        succeeded == SelectSeq(order, Succeeded)
        rendered == SelectSeq(order, Rendered)
    IN /\ PageSetBy(last)
       /\ ui.imageSrc = (IF succeeded = <<>> THEN InitialPage.imageSrc
                         ELSE LastOf(succeeded))
       /\ ui.caption = (IF rendered = <<>> THEN InitialPage.caption
                        ELSE Caption(reqs[LastOf(rendered)].resp.credits,
                                     reqs[LastOf(rendered)].resp.params))

\* C12 witness: two requests overlapped, the second ended first with a
\* result, the first ended last with an error: the page shows the error of
\* the first and still holds the image of the second.
C12_Witness ==
  /\ MaxRequests >= 2
  /\ AllSettled /\ Concurrent
  /\ order = <<2, 1>>
  /\ Rendered(2) /\ ~Succeeded(1)
  /\ ErrorPage(ui)
  /\ ui.imageSrc = 2

UIState(u) ==
  IF Shown(u.loading) THEN "Loading"
  ELSE IF Shown(u.result) THEN "Success"
  ELSE IF Shown(u.error) THEN "Failure"
  ELSE "Idle"

SubmitStep == \E r \in Requests : ~Submitted(r) /\ reqs'[r].pc # "none"
SuccessStep == \E r \in Requests : RenderStep(r)
ErrorStep == \E r \in Requests : StopStep(r) /\ ~RenderStep(r)

\* the transitions of the stated machine
MachineStep ==
  LET a == UIState(ui)
      b == UIState(ui')
  IN \/ a = "Idle" /\ b = "Loading" /\ SubmitStep
     \/ a = "Loading" /\ b = "Success" /\ SuccessStep
     \/ a = "Loading" /\ b = "Failure" /\ ErrorStep
     \/ a = "Success" /\ b = "Loading" /\ SubmitStep
     \/ a = "Failure" /\ b = "Loading" /\ SubmitStep

\* C13 as stated: the UI state changes only along Idle -> Loading,
\* Loading -> Success, Loading -> Failure, Success -> Loading and
\* Failure -> Loading, also in executions with overlapping requests.
C13_Original ==
  [][UIState(ui') # UIState(ui) => MachineStep]_vars

\* C13 amended: the UI state changes only along the five transitions of the
\* machine as long as every submission is made while the submit control is
\* enabled; once a submission has bypassed the disabled control, the
\* callbacks of overlapping requests also take Success -> Failure (error
\* response or transport failure) and Failure -> Success (success response),
\* and nothing else.
C13_MachineUnlessBypassed ==
  [][UIState(ui') # UIState(ui) =>
       \/ MachineStep
       \/ /\ Bypassed
          /\ \/ UIState(ui) = "Success" /\ UIState(ui') = "Failure" /\ ErrorStep
             \/ UIState(ui) = "Failure" /\ UIState(ui') = "Success" /\ SuccessStep]_vars

\* C13 witness: the second submission bypassed the disabled control, the
\* first request ended with a result and then the second with an error.
C13_Witness ==
  /\ MaxRequests >= 2
  /\ reqs[2].disabledAtSubmit
  /\ order = <<1, 2>>
  /\ Succeeded(1) /\ ~Succeeded(2)
  /\ UIState(ui) = "Failure"

\* C14: onGenerateClick always calls preventDefault and returns false and
\* never lets a synchronous exception of handleGeneration reach its caller;
\* a caught exception is only logged and the guard leaves the page as it was
\* when the exception was thrown (no setStopLoading).
C14_GuardOnlyLogs ==
  click.called =>
    /\ click.prevented
    /\ click.returned = "false"
    /\ ~click.propagated
    /\ missing # "none" => click.caught
    /\ click.caught =>
         /\ click.logged
         /\ ui = click.pageAtThrow
         /\ order = <<>>
         /\ \A r \in Requests : reqs[r].stops = 0

\* C14 witness: the result region is missing, setStartLoading threw after it
\* had disabled the control and shown the loading region, and the page was
\* left that way with the error region still shown.
C14_Witness ==
  /\ click.called /\ click.caught
  /\ missing = "result"
  /\ ui.submitDisabled
  /\ ui.loading = "block"
  /\ Shown(ui.error)

\* C18: if every submission is made while the submit control is enabled, at
\* most one request is in flight at any time.
C18_OneInFlight ==
  ~Bypassed => Cardinality({r \in Requests : InFlight(r)}) <= 1

\* C18 witness: a second request is in flight after the first has ended, and
\* no submission was made while the control was disabled.
C18_Witness ==
  /\ MaxRequests >= 2
  /\ ~Bypassed
  /\ reqs[1].pc = "done"
  /\ InFlight(2)

====
